---- MODULE Spec2Model ----
(***************************************************************************)
(* Model of source/common/tracing/http_tracer_impl.cc: the trace decision  *)
(* (HttpTracerUtility::isTracing), span creation                           *)
(* (HttpTracerImpl::startSpan) and span finalization                       *)
(* (HttpTracerUtility::finalizeSpan).                                      *)
(*                                                                         *)
(* Strings are sequences of one-character strings, so that substr,         *)
(* append and fmt::format are computed as the code computes them.  Header  *)
(* values are NUL-free C strings.  An optional value (absl::optional, a    *)
(* possibly-null pointer) is a sequence of length 0 or 1.                  *)
(***************************************************************************)
EXTENDS Integers, Sequences, FiniteSets, TLC

VARIABLES
  system_clock_period,  \* nanoseconds per tick of SystemTime::duration on this build
  local_info,           \* HttpTracerImpl::local_info_
  call,                 \* the operation called last, with its arguments
  decision,             \* what isTracing returned
  driver_calls,         \* span names startSpan passed to driver_->startSpan
  span,                 \* the span the driver created, with the calls made on it
  outcome               \* "returned" or "crashed" for the call made last

vars == <<system_clock_period, local_info, call, decision, driver_calls, span, outcome>>

(***************************************************************************)
(* Bounds of the explored inputs.                                          *)
(***************************************************************************)
MaxPathLen == 200

(***************************************************************************)
(* Optional values and strings.                                            *)
(***************************************************************************)
None == <<>>
Some(v) == <<v>>
Has(o) == Len(o) > 0
ValueOf(o) == o[1]

Digits == <<"0", "1", "2", "3", "4", "5", "6", "7", "8", "9">>

RECURSIVE to_string(_)
to_string(n) ==
  IF n < 10 THEN <<Digits[n + 1]>>
  ELSE to_string(n \div 10) \o <<Digits[(n % 10) + 1]>>

(***************************************************************************)
(* Http::HeaderMap: a map from the names of the headers present to their   *)
(* values.  Each accessor returns the entry, or None for a null entry.     *)
(***************************************************************************)
get(request_headers, name) ==
  IF name \in DOMAIN request_headers THEN Some(request_headers[name]) ELSE None

RequestId(h) == get(h, "x-request-id")
Host(h) == get(h, ":authority")
Path(h) == get(h, ":path")
EnvoyOriginalPath(h) == get(h, "x-envoy-original-path")
ForwardedProto(h) == get(h, "x-forwarded-proto")
Method(h) == get(h, ":method")
UserAgent(h) == get(h, "user-agent")
EnvoyDownstreamServiceCluster(h) == get(h, "x-envoy-downstream-service-cluster")
ClientTraceId(h) == get(h, "x-client-trace-id")

(***************************************************************************)
(* entry->value().c_str() on an entry the code does not test for null.     *)
(* On a null entry the behaviour is undefined: the call faults, or it      *)
(* reads some unrelated bytes as the value.                                *)
(***************************************************************************)
GarbageValues == {<<"?">>}

Deref(entry) ==
  IF Has(entry) THEN {[crash |-> FALSE, value |-> ValueOf(entry)]}
  ELSE {[crash |-> TRUE, value |-> <<>>]}
         \cup {[crash |-> FALSE, value |-> g] : g \in GarbageValues}

valueOrDefault(header, default_value) ==
  IF Has(header) THEN ValueOf(header) ELSE default_value

buildResponseCode(info) ==
  IF Has(info.responseCode) THEN to_string(ValueOf(info.responseCode)) ELSE <<"0">>

max_path_length == 128

\* Faulty variant: the cut is one character short.
TruncatePath_OneShort(path) ==
  IF Len(path) > max_path_length THEN SubSeq(path, 1, max_path_length - 1) ELSE path

TruncatePath(path) ==
  IF Len(path) > max_path_length THEN SubSeq(path, 1, max_path_length) ELSE path

FormatUrl(scheme, host, path) == scheme \o <<":", "/", "/">> \o host \o path

\* The set of outcomes of buildUrl: a fault, or the URL string.
buildUrl(request_headers) ==
  { IF p.crash THEN [crash |-> TRUE, value |-> <<>>]
    ELSE [crash |-> FALSE,
          value |-> FormatUrl(valueOrDefault(ForwardedProto(request_headers), <<>>),
                              valueOrDefault(Host(request_headers), <<>>),
                              TruncatePath(p.value))]
    : p \in (IF Has(EnvoyOriginalPath(request_headers))
             THEN Deref(EnvoyOriginalPath(request_headers))
             ELSE Deref(Path(request_headers))) }

IngressOperation == <<"i", "n", "g", "r", "e", "s", "s">>
EgressOperation == <<"e", "g", "r", "e", "s", "s">>

toString(operation_name) ==
  CASE operation_name = "Ingress" -> IngressOperation
    [] operation_name = "Egress" -> EgressOperation

(***************************************************************************)
(* HttpTracerUtility::isTracing.  uuid_status is what                      *)
(* UuidUtils::isTraceableUuid returns for the request id; classifier_calls *)
(* counts the calls of it the function makes.                              *)
(***************************************************************************)
UuidTraceStatus == {"Client", "Forced", "Sampled", "NoTrace"}

\* Faulty variant: the request id is tested before the health check flag.
isTracing_RequestIdFirst(stream_info, request_headers, uuid_status) ==
  IF ~Has(RequestId(request_headers))
  THEN [reason |-> "NotTraceableRequestId", traced |-> FALSE, classifier_calls |-> 0]
  ELSE IF stream_info.healthCheck
  THEN [reason |-> "HealthCheck", traced |-> FALSE, classifier_calls |-> 0]
  ELSE CASE uuid_status = "Client" ->
              [reason |-> "ClientForced", traced |-> TRUE, classifier_calls |-> 1]
         [] uuid_status = "Forced" ->
              [reason |-> "ServiceForced", traced |-> TRUE, classifier_calls |-> 1]
         [] uuid_status = "Sampled" ->
              [reason |-> "Sampling", traced |-> TRUE, classifier_calls |-> 1]
         [] uuid_status = "NoTrace" ->
              [reason |-> "NotTraceableRequestId", traced |-> FALSE, classifier_calls |-> 1]

\* Faulty variant: a Forced request id is reported as sampled.
isTracing_ForcedAsSampling(stream_info, request_headers, uuid_status) ==
  IF stream_info.healthCheck
  THEN [reason |-> "HealthCheck", traced |-> FALSE, classifier_calls |-> 0]
  ELSE IF ~Has(RequestId(request_headers))
  THEN [reason |-> "NotTraceableRequestId", traced |-> FALSE, classifier_calls |-> 0]
  ELSE CASE uuid_status = "Client" ->
              [reason |-> "ClientForced", traced |-> TRUE, classifier_calls |-> 1]
         [] uuid_status = "Forced" ->
              [reason |-> "Sampling", traced |-> TRUE, classifier_calls |-> 1]
         [] uuid_status = "Sampled" ->
              [reason |-> "Sampling", traced |-> TRUE, classifier_calls |-> 1]
         [] uuid_status = "NoTrace" ->
              [reason |-> "NotTraceableRequestId", traced |-> FALSE, classifier_calls |-> 1]

isTracing(stream_info, request_headers, uuid_status) ==
  IF stream_info.healthCheck
  THEN [reason |-> "HealthCheck", traced |-> FALSE, classifier_calls |-> 0]
  ELSE IF ~Has(RequestId(request_headers))
  THEN [reason |-> "NotTraceableRequestId", traced |-> FALSE, classifier_calls |-> 0]
  ELSE CASE uuid_status = "Client" ->
              [reason |-> "ClientForced", traced |-> TRUE, classifier_calls |-> 1]
         [] uuid_status = "Forced" ->
              [reason |-> "ServiceForced", traced |-> TRUE, classifier_calls |-> 1]
         [] uuid_status = "Sampled" ->
              [reason |-> "Sampling", traced |-> TRUE, classifier_calls |-> 1]
         [] uuid_status = "NoTrace" ->
              [reason |-> "NotTraceableRequestId", traced |-> FALSE, classifier_calls |-> 1]

(***************************************************************************)
(* Calls made on a Span.                                                   *)
(***************************************************************************)
setTag(key, value) == [op |-> "setTag", key |-> key, value |-> value, ts |-> 0]
log(timestamp, event) == [op |-> "log", key |-> event, value |-> <<>>, ts |-> timestamp]
finishSpan == [op |-> "finishSpan", key |-> "", value |-> <<>>, ts |-> 0]

(***************************************************************************)
(* annotateVerbose.  The marks of StreamInfo are optional nanosecond       *)
(* offsets; duration_cast truncates an offset to the tick of SystemTime.   *)
(***************************************************************************)
duration_cast(d) == (d \div system_clock_period) * system_clock_period

LogIfPresent(start_time, mark, event) ==
  IF Has(mark) THEN <<log(start_time + duration_cast(ValueOf(mark)), event)>> ELSE <<>>

annotateVerbose(stream_info) ==
  LET start_time == stream_info.startTime
  IN LogIfPresent(start_time, stream_info.lastDownstreamRxByteReceived,
                  "LastDownstreamRxByteReceived")
     \o LogIfPresent(start_time, stream_info.firstUpstreamTxByteSent,
                     "FirstUpstreamTxByteSent")
     \o LogIfPresent(start_time, stream_info.lastUpstreamTxByteSent,
                     "LastUpstreamTxByteSent")
     \o LogIfPresent(start_time, stream_info.firstUpstreamRxByteReceived,
                     "FirstUpstreamRxByteReceived")
     \o LogIfPresent(start_time, stream_info.lastUpstreamRxByteReceived,
                     "LastUpstreamRxByteReceived")
     \o LogIfPresent(start_time, stream_info.firstDownstreamTxByteSent,
                     "FirstDownstreamTxByteSent")
     \o LogIfPresent(start_time, stream_info.lastDownstreamTxByteSent,
                     "LastDownstreamTxByteSent")

(***************************************************************************)
(* Helpers of other files, used by finalizeSpan.                           *)
(***************************************************************************)
is5xx(code) == code >= 500 /\ code < 600

protocolToString(protocol) ==
  IF ~Has(protocol) THEN <<"-">>
  ELSE CASE ValueOf(protocol) = "Http10" -> <<"H", "T", "T", "P", "/", "1", ".", "0">>
         [] ValueOf(protocol) = "Http11" -> <<"H", "T", "T", "P", "/", "1", ".", "1">>
         [] ValueOf(protocol) = "Http2" -> <<"H", "T", "T", "P", "/", "2">>

\* The response flags of the record are kept in their short-string form.
toShortString(stream_info) == stream_info.responseFlags

(***************************************************************************)
(* HttpTracerUtility::finalizeSpan, in three parts.  has_headers is false  *)
(* when the request_headers pointer is null.                               *)
(***************************************************************************)
RECURSIVE CustomHeaderTags(_, _)
CustomHeaderTags(headers_for_tags, request_headers) ==
  IF headers_for_tags = <<>> THEN <<>>
  ELSE LET header == Head(headers_for_tags)
           entry == get(request_headers, header)
       IN (IF Has(entry) THEN <<setTag(header, ValueOf(entry))>> ELSE <<>>)
          \o CustomHeaderTags(Tail(headers_for_tags), request_headers)

\* Lines 128-153: the set of outcomes, each a fault flag and the calls made.
PreResponseTags(has_headers, request_headers, stream_info, tracing_config) ==
  IF ~has_headers THEN {[crash |-> FALSE, calls |-> <<>>]}
  ELSE
    LET id == IF Has(RequestId(request_headers))
              THEN <<setTag("GuidXRequestId", ValueOf(RequestId(request_headers)))>>
              ELSE <<>>
        rest == <<setTag("DownstreamCluster",
                         valueOrDefault(EnvoyDownstreamServiceCluster(request_headers),
                                        <<"-">>)),
                  setTag("UserAgent", valueOrDefault(UserAgent(request_headers), <<"-">>)),
                  setTag("HttpProtocol", protocolToString(stream_info.protocol))>>
                \o (IF Has(ClientTraceId(request_headers))
                    THEN <<setTag("GuidXClientTraceId",
                                  ValueOf(ClientTraceId(request_headers)))>>
                    ELSE <<>>)
                \o CustomHeaderTags(tracing_config.requestHeadersForTags, request_headers)
    IN { IF url.crash THEN [crash |-> TRUE, calls |-> id]
         ELSE IF method.crash
         THEN [crash |-> TRUE, calls |-> id \o <<setTag("HttpUrl", url.value)>>]
         ELSE [crash |-> FALSE,
               calls |-> id \o <<setTag("HttpUrl", url.value),
                                 setTag("HttpMethod", method.value)>> \o rest]
         : url \in buildUrl(request_headers), method \in Deref(Method(request_headers)) }

\* Lines 154-164.
ResponseTags(stream_info) ==
  <<setTag("RequestSize", to_string(stream_info.bytesReceived))>>
  \o (IF Has(stream_info.upstreamHost)
      THEN <<setTag("UpstreamCluster", ValueOf(stream_info.upstreamHost))>>
      ELSE <<>>)
  \o <<setTag("HttpStatusCode", buildResponseCode(stream_info)),
       setTag("ResponseSize", to_string(stream_info.bytesSent)),
       setTag("ResponseFlags", toShortString(stream_info))>>

\* Lines 170-172.
ErrorTag(stream_info) ==
  IF ~Has(stream_info.responseCode) \/ is5xx(ValueOf(stream_info.responseCode))
  THEN <<setTag("Error", <<"t", "r", "u", "e">>)>>
  ELSE <<>>

\* Faulty variant: the span is finished before the error tag is written.
finalizeSpan_FinishBeforeError(has_headers, request_headers, stream_info, tracing_config) ==
  { IF pre.crash THEN [outcome |-> "crashed", calls |-> pre.calls]
    ELSE [outcome |-> "returned",
          calls |-> pre.calls
                    \o ResponseTags(stream_info)
                    \o (IF tracing_config.verbose THEN annotateVerbose(stream_info)
                        ELSE <<>>)
                    \o <<finishSpan>>
                    \o ErrorTag(stream_info)]
    : pre \in PreResponseTags(has_headers, request_headers, stream_info, tracing_config) }

\* The set of outcomes of one call: whether it returned, and the calls it
\* made on the span, in order.
finalizeSpan(has_headers, request_headers, stream_info, tracing_config) ==
  { IF pre.crash THEN [outcome |-> "crashed", calls |-> pre.calls]
    ELSE [outcome |-> "returned",
          calls |-> pre.calls
                    \o ResponseTags(stream_info)
                    \o (IF tracing_config.verbose THEN annotateVerbose(stream_info)
                        ELSE <<>>)
                    \o ErrorTag(stream_info)
                    \o <<finishSpan>>]
    : pre \in PreResponseTags(has_headers, request_headers, stream_info, tracing_config) }

(***************************************************************************)
(* HttpTracerImpl::startSpan.  driver_creates is the driver's choice to    *)
(* create a span or to return null.  The outcome holds the names passed to *)
(* the driver and the span returned (None for a null SpanPtr).             *)
(***************************************************************************)
\* Faulty variant: the host is appended for both directions.
SpanName_AlwaysHost(config, request_headers) ==
  { IF host.crash THEN [crash |-> TRUE, value |-> <<>>]
    ELSE [crash |-> FALSE,
          value |-> (toString(config.operationName) \o <<" ">>) \o host.value]
    : host \in Deref(Host(request_headers)) }

SpanName(config, request_headers) ==
  IF config.operationName = "Egress"
  THEN { IF host.crash THEN [crash |-> TRUE, value |-> <<>>]
         ELSE [crash |-> FALSE,
               value |-> (toString(config.operationName) \o <<" ">>) \o host.value]
         : host \in Deref(Host(request_headers)) }
  ELSE {[crash |-> FALSE, value |-> toString(config.operationName)]}

IdentityTags(info) ==
  <<setTag("Component", <<"p", "r", "o", "x", "y">>),
    setTag("NodeId", info.nodeName),
    setTag("Zone", info.zoneName)>>

startSpan(config, request_headers, stream_info, tracing_decision, driver_creates) ==
  { IF span_name.crash
    THEN [outcome |-> "crashed", driver_calls |-> <<>>, active_span |-> None]
    ELSE [outcome |-> "returned",
          driver_calls |-> <<span_name.value>>,
          active_span |-> IF driver_creates THEN Some(IdentityTags(local_info))
                          ELSE None]
    : span_name \in SpanName(config, request_headers) }

(***************************************************************************)
(* The inputs explored.                                                    *)
(***************************************************************************)
Opt(S) == {None} \cup {Some(v) : v \in S}

\* A path of n characters: a slash, then characters that vary with the position.
MakePath(n, alphabet) ==
  [i \in 1..n |-> IF i = 1 THEN "/" ELSE alphabet[(i % Len(alphabet)) + 1]]

PathLens == {1, max_path_length - 1, max_path_length, max_path_length + 1, MaxPathLen}
Paths == {MakePath(n, <<"a", "b", "c", "d", "e", "f", "g">>) : n \in PathLens}
OriginalPaths == {MakePath(n, <<"o", "p", "q">>) : n \in {2, max_path_length + 2}}
Hosts == {<<"h">>, <<"s", "v", "c">>}

HeaderNames ==
  {"x-request-id", ":authority", ":path", "x-envoy-original-path", "x-forwarded-proto",
   ":method", "user-agent", "x-envoy-downstream-service-cluster", "x-client-trace-id",
   "x-custom"}

\* The headers the URL, the method tag and the span name are read from.
UrlChoices ==
  [proto : Opt({<<"h", "t", "t", "p", "s">>}), host : Opt(Hosts), path : Opt(Paths),
   orig : Opt(OriginalPaths), method : Opt({<<"G", "E", "T">>})]

\* The headers that are mirrored into one tag each.
MirroredChoices ==
  [id : Opt({<<"i", "d">>}), dc : Opt({<<"d", "c">>}), ua : Opt({<<"u", "a">>}),
   ct : Opt({<<"c", "t">>}), custom : Opt({<<"c", "v">>})]

MkHeaders(u, m) ==
  LET entry == [n \in HeaderNames |->
                  CASE n = "x-request-id" -> m.id
                    [] n = ":authority" -> u.host
                    [] n = ":path" -> u.path
                    [] n = "x-envoy-original-path" -> u.orig
                    [] n = "x-forwarded-proto" -> u.proto
                    [] n = ":method" -> u.method
                    [] n = "user-agent" -> m.ua
                    [] n = "x-envoy-downstream-service-cluster" -> m.dc
                    [] n = "x-client-trace-id" -> m.ct
                    [] n = "x-custom" -> m.custom]
  IN [n \in {k \in HeaderNames : Has(entry[k])} |-> ValueOf(entry[n])]

AllMirrored ==
  [id |-> Some(<<"i", "d">>), dc |-> Some(<<"d", "c">>), ua |-> Some(<<"u", "a">>),
   ct |-> Some(<<"c", "t">>), custom |-> Some(<<"c", "v">>)]
NoMirrored == [id |-> None, dc |-> None, ua |-> None, ct |-> None, custom |-> None]

CompleteUrl ==
  [proto |-> Some(<<"h", "t", "t", "p", "s">>), host |-> Some(<<"h">>),
   path |-> Some(MakePath(MaxPathLen, <<"a", "b", "c", "d", "e", "f", "g">>)),
   orig |-> None, method |-> Some(<<"G", "E", "T">>)]
BaselineUrls ==
  {CompleteUrl, [CompleteUrl EXCEPT !.method = None], [CompleteUrl EXCEPT !.path = None]}

\* Every combination of the URL headers with all or none of the mirrored
\* headers, and every combination of the mirrored headers with three
\* combinations of the URL headers.
HeaderMaps ==
  {MkHeaders(u, m) : u \in UrlChoices, m \in {AllMirrored, NoMirrored}}
    \cup {MkHeaders(u, m) : u \in BaselineUrls, m \in MirroredChoices}

BaselineHeaderMaps == {MkHeaders(u, AllMirrored) : u \in BaselineUrls}

StartTimes == {1000000}
ResponseCodes == {200, 404, 499, 500, 503, 599, 600}

MarkNames ==
  <<"lastDownstreamRxByteReceived", "firstUpstreamTxByteSent", "lastUpstreamTxByteSent",
    "firstUpstreamRxByteReceived", "lastUpstreamRxByteReceived",
    "firstDownstreamTxByteSent", "lastDownstreamTxByteSent">>

\* The offset each mark has when it is present, in nanoseconds.
MarkOffset ==
  [lastDownstreamRxByteReceived |-> 6000, firstUpstreamTxByteSent |-> 2500,
   lastUpstreamTxByteSent |-> 7500, firstUpstreamRxByteReceived |-> 7000,
   lastUpstreamRxByteReceived |-> 9001, firstDownstreamTxByteSent |-> 8000,
   lastDownstreamTxByteSent |-> 9999]

Range(f) == {f[x] : x \in DOMAIN f}

\* The part of the record other than the response code and the marks.
Ancillaries ==
  {[bytesReceived |-> 0, bytesSent |-> 0, protocol |-> None,
    responseFlags |-> <<"-">>, upstreamHost |-> None],
   [bytesReceived |-> 1234, bytesSent |-> 56789, protocol |-> Some("Http11"),
    responseFlags |-> <<"U", "T">>, upstreamHost |-> Some(<<"c", "l", "u", "s", "t", "e", "r">>)],
   [bytesReceived |-> 10, bytesSent |-> 0, protocol |-> Some("Http2"),
    responseFlags |-> <<"U", "F">>, upstreamHost |-> None]}

MkInfo(health_check, start_time, code, present, a) ==
  [healthCheck |-> health_check, startTime |-> start_time, responseCode |-> code,
   bytesReceived |-> a.bytesReceived, bytesSent |-> a.bytesSent,
   protocol |-> a.protocol, responseFlags |-> a.responseFlags,
   upstreamHost |-> a.upstreamHost,
   lastDownstreamRxByteReceived |->
     IF "lastDownstreamRxByteReceived" \in present
     THEN Some(MarkOffset.lastDownstreamRxByteReceived) ELSE None,
   firstUpstreamTxByteSent |->
     IF "firstUpstreamTxByteSent" \in present
     THEN Some(MarkOffset.firstUpstreamTxByteSent) ELSE None,
   lastUpstreamTxByteSent |->
     IF "lastUpstreamTxByteSent" \in present
     THEN Some(MarkOffset.lastUpstreamTxByteSent) ELSE None,
   firstUpstreamRxByteReceived |->
     IF "firstUpstreamRxByteReceived" \in present
     THEN Some(MarkOffset.firstUpstreamRxByteReceived) ELSE None,
   lastUpstreamRxByteReceived |->
     IF "lastUpstreamRxByteReceived" \in present
     THEN Some(MarkOffset.lastUpstreamRxByteReceived) ELSE None,
   firstDownstreamTxByteSent |->
     IF "firstDownstreamTxByteSent" \in present
     THEN Some(MarkOffset.firstDownstreamTxByteSent) ELSE None,
   lastDownstreamTxByteSent |->
     IF "lastDownstreamTxByteSent" \in present
     THEN Some(MarkOffset.lastDownstreamTxByteSent) ELSE None]

\* The record when the request starts: no response, no mark yet.
FreshInfos ==
  {MkInfo(hc, t, None, {}, a) : hc \in BOOLEAN, t \in StartTimes,
                               a \in {x \in Ancillaries : x.bytesSent = 0}}

\* The record when the request completes: every response code with all or
\* none of the marks, and every set of marks with two response codes.
CompletedInfos ==
  {MkInfo(FALSE, t, code, present, a) :
     t \in StartTimes, code \in Opt(ResponseCodes),
     present \in {{}, Range(MarkNames)}, a \in Ancillaries}
    \cup {MkInfo(FALSE, t, code, present, a) :
            t \in StartTimes, code \in {None, Some(200)},
            present \in SUBSET Range(MarkNames),
            a \in {x \in Ancillaries : Has(x.upstreamHost)}}

BaselineInfos ==
  {MkInfo(FALSE, t, code, Range(MarkNames), a) :
     t \in StartTimes, code \in {None, Some(404)},
     a \in {x \in Ancillaries : Has(x.upstreamHost)}}

\* Every record is explored with the three baseline header maps, with and
\* without the header pointer; every other header map with two records.
FinalizeInfos(request_headers) ==
  IF request_headers \in BaselineHeaderMaps THEN CompletedInfos ELSE BaselineInfos

Configs ==
  [operationName : {"Ingress", "Egress"}, verbose : BOOLEAN,
   requestHeadersForTags : {<<"x-custom">>}]

LocalInfos == {[nodeName |-> <<"n", "1">>, zoneName |-> <<"z", "a">>]}
SystemClockPeriods == {1, 1000}

NoHeaders == <<>>
NoDecision == [reason |-> "none", traced |-> FALSE, classifier_calls |-> 0]
NoSpan == [exists |-> FALSE, calls |-> <<>>]
NoCall ==
  [op |-> "none", has_headers |-> FALSE, request_headers |-> NoHeaders,
   stream_info |-> MkInfo(FALSE, 0, None, {}, CHOOSE a \in Ancillaries : a.bytesReceived = 0),
   config |-> [operationName |-> "Ingress", verbose |-> FALSE,
               requestHeadersForTags |-> <<>>],
   uuid_status |-> "none", driver_creates |-> FALSE]

(***************************************************************************)
(* The state machine, for one request: the caller calls isTracing, then    *)
(* startSpan, then finalizeSpan on the span it obtained, if any.  A fault  *)
(* ends the process.                                                       *)
(***************************************************************************)
Init ==
  /\ system_clock_period \in SystemClockPeriods
  /\ local_info \in LocalInfos
  /\ call = NoCall
  /\ decision = NoDecision
  /\ driver_calls = <<>>
  /\ span = NoSpan
  /\ outcome = "none"

SpanActive == span.exists /\ \A i \in DOMAIN span.calls : span.calls[i].op # "finishSpan"

IsTracing ==
  /\ call.op = "none"
  /\ \E h \in HeaderMaps, info \in FreshInfos, status \in UuidTraceStatus :
       /\ call' = [NoCall EXCEPT !.op = "isTracing", !.has_headers = TRUE,
                                 !.request_headers = h, !.stream_info = info,
                                 !.uuid_status = status]
       /\ decision' = isTracing(info, h, status)
  /\ driver_calls' = <<>>
  /\ span' = NoSpan
  /\ outcome' = "returned"
  /\ UNCHANGED <<system_clock_period, local_info>>

StartSpan ==
  /\ outcome # "crashed"
  /\ call.op = "isTracing"
  /\ \E config \in Configs, driver_creates \in BOOLEAN :
       \E r \in startSpan(config, call.request_headers, call.stream_info,
                          [reason |-> decision.reason, traced |-> decision.traced],
                          driver_creates) :
         /\ call' = [call EXCEPT !.op = "startSpan", !.config = config,
                                 !.uuid_status = "none",
                                 !.driver_creates = driver_creates]
         /\ driver_calls' = r.driver_calls
         /\ span' = IF Has(r.active_span)
                    THEN [exists |-> TRUE, calls |-> ValueOf(r.active_span)]
                    ELSE NoSpan
         /\ outcome' = r.outcome
  /\ UNCHANGED <<system_clock_period, local_info, decision>>

FinalizeSpan ==
  /\ outcome # "crashed"
  /\ call.op = "startSpan"
  /\ SpanActive
  /\ \E has_headers \in BOOLEAN :
       LET h == IF has_headers THEN call.request_headers ELSE NoHeaders
       IN \E info \in FinalizeInfos(call.request_headers) :
            \E r \in finalizeSpan(has_headers, h, info, call.config) :
              /\ call' = [call EXCEPT !.op = "finalizeSpan",
                                      !.has_headers = has_headers,
                                      !.request_headers = h, !.stream_info = info]
              /\ span' = [span EXCEPT !.calls = @ \o r.calls]
              /\ outcome' = r.outcome
  /\ decision' = NoDecision
  /\ driver_calls' = <<>>
  /\ UNCHANGED <<system_clock_period, local_info>>

Next == IsTracing \/ StartSpan \/ FinalizeSpan

Spec == Init /\ [][Next]_vars

(***************************************************************************)
(* Properties.                                                             *)
(***************************************************************************)
Info == call.stream_info
Headers == call.request_headers

TagValues(key) ==
  {span.calls[i].value : i \in {j \in DOMAIN span.calls :
                                  span.calls[j].op = "setTag" /\ span.calls[j].key = key}}
TagCount(key) ==
  Cardinality({j \in DOMAIN span.calls :
                 span.calls[j].op = "setTag" /\ span.calls[j].key = key})
Logs == SelectSeq(span.calls, LAMBDA c : c.op = "log")
LoggedEvents == {Logs[i].key : i \in DOMAIN Logs}
FinishIndexes == {i \in DOMAIN span.calls : span.calls[i].op = "finishSpan"}
PresentMarks == {m \in Range(MarkNames) : Has(Info[m])}

\* C1: for a request flagged as a health check, isTracing returns
\* {HealthCheck, false} whether or not a request id is present and whatever
\* its classification, and the classifier is not called.
C1_HealthCheckNotTraced ==
  (call.op = "isTracing" /\ Info.healthCheck)
    => /\ decision.reason = "HealthCheck"
       /\ decision.traced = FALSE
       /\ decision.classifier_calls = 0

C1_Witness ==
  /\ call.op = "isTracing"
  /\ Info.healthCheck
  /\ Has(RequestId(Headers))
  /\ call.uuid_status = "Client"

\* C2: for a request that is not a health check, isTracing returns
\* {NotTraceableRequestId, false} when the request id is absent or classified
\* NoTrace, {ClientForced, true} for Client, {ServiceForced, true} for Forced,
\* {Sampling, true} for Sampled; traced is true exactly for a request that is
\* not a health check and has a request id classified Client, Forced or Sampled.
C2_DecisionTable ==
  call.op = "isTracing"
    => /\ ~Info.healthCheck =>
            <<decision.reason, decision.traced>> =
              IF "x-request-id" \notin DOMAIN Headers
              THEN <<"NotTraceableRequestId", FALSE>>
              ELSE [Client |-> <<"ClientForced", TRUE>>,
                    Forced |-> <<"ServiceForced", TRUE>>,
                    Sampled |-> <<"Sampling", TRUE>>,
                    NoTrace |-> <<"NotTraceableRequestId", FALSE>>][call.uuid_status]
       /\ decision.traced <=> /\ ~Info.healthCheck
                              /\ "x-request-id" \in DOMAIN Headers
                              /\ call.uuid_status \in {"Client", "Forced", "Sampled"}

C2_Witness ==
  /\ call.op = "isTracing"
  /\ ~Info.healthCheck
  /\ "x-request-id" \in DOMAIN Headers
  /\ call.uuid_status = "Forced"
  /\ decision.traced

\* C3: finishSpan is called at most once on the span, and no setTag or log
\* call on the span follows it.
C3_FinishIsLastAndOnce ==
  /\ Cardinality(FinishIndexes) <= 1
  /\ \A i \in FinishIndexes : i = Len(span.calls)

C3_Witness ==
  /\ call.op = "finalizeSpan"
  /\ outcome = "returned"
  /\ Logs # <<>>
  /\ TagCount("Error") = 1
  /\ FinishIndexes # {}

\* C4: finalizeSpan reaches the finishSpan call for every combination of
\* absent inputs: header container, any subset of the headers (the method,
\* path and original-path headers included), timing marks, upstream host,
\* response code.
C4_FinalizeAlwaysFinishes ==
  call.op = "finalizeSpan" => (outcome = "returned" /\ FinishIndexes # {})

\* C5: finalizeSpan sets the error tag to "true" if and only if the record has
\* no response code or a 5xx response code, whatever the other inputs are.
C5_ErrorTagIff ==
  call.op = "finalizeSpan"
    => (TagValues("Error") = {<<"t", "r", "u", "e">>}
          <=> (Info.responseCode = <<>> \/ Info.responseCode[1] \in 500..599))
       /\ (TagValues("Error") \subseteq {<<"t", "r", "u", "e">>})

\* The event names of the seven marks as the specification lists them, in
\* the notation of Tracing::Logs.
SpecEventNames ==
  <<"FirstDownstreamRxByteReceived", "FirstUpstreamTxByteSent", "LastUpstreamTxByteSent",
    "FirstUpstreamRxByteReceived", "LastUpstreamRxByteReceived",
    "FirstDownstreamTxByteSent", "LastDownstreamTxByteSent">>

\* C6: a log event is appended for a mark exactly when verbose mode is enabled
\* and the mark is present, for each of the seven marks listed, each under
\* its own event name; with verbose mode disabled no log event is appended.
C6_LogIffVerboseAndPresent ==
  call.op = "finalizeSpan"
    => /\ \A i \in DOMAIN MarkNames :
            SpecEventNames[i] \in LoggedEvents
              <=> (call.config.verbose /\ MarkNames[i] \in PresentMarks)
       /\ ~call.config.verbose => Logs = <<>>

\* The event name the code gives each mark.
EventOf ==
  [lastDownstreamRxByteReceived |-> "LastDownstreamRxByteReceived",
   firstUpstreamTxByteSent |-> "FirstUpstreamTxByteSent",
   lastUpstreamTxByteSent |-> "LastUpstreamTxByteSent",
   firstUpstreamRxByteReceived |-> "FirstUpstreamRxByteReceived",
   lastUpstreamRxByteReceived |-> "LastUpstreamRxByteReceived",
   firstDownstreamTxByteSent |-> "FirstDownstreamTxByteSent",
   lastDownstreamTxByteSent |-> "LastDownstreamTxByteSent"]

\* The canonical list filtered to the present marks, each event at the start
\* time plus the offset of its mark.
RECURSIVE CanonicalEvents(_)
CanonicalEvents(marks) ==
  IF marks = <<>> THEN <<>>
  ELSE (IF Head(marks) \in PresentMarks
        THEN <<[event |-> EventOf[Head(marks)],
                ts |-> Info.startTime + Info[Head(marks)][1]]>>
        ELSE <<>>)
       \o CanonicalEvents(Tail(marks))

\* C7: with verbose mode enabled the log events of one finalizeSpan call are
\* the canonical list filtered to the present marks, and each event is
\* timestamped with the start time plus the offset of its mark.
C7_CanonicalOrder ==
  (call.op = "finalizeSpan" /\ call.config.verbose)
    => [i \in DOMAIN Logs |-> [event |-> Logs[i].key, ts |-> Logs[i].ts]]
         = CanonicalEvents(MarkNames)

\* C8: startSpan returns absent, with no call made on a span and no error, or
\* returns the span the driver created with exactly three tags on it:
\* component = proxy, node id = local node name, zone = local zone name;
\* startSpan never finishes the span.
C8_StartSpanTotal ==
  call.op = "startSpan"
    => /\ outcome = "returned"
       /\ ~call.driver_creates => (~span.exists /\ span.calls = <<>>)
       /\ call.driver_creates =>
            /\ span.exists
            /\ span.calls = <<setTag("Component", <<"p", "r", "o", "x", "y">>),
                              setTag("NodeId", local_info.nodeName),
                              setTag("Zone", local_info.zoneName)>>

\* C9: the span name passed to the driver is "ingress" for direction Ingress,
\* for every request host, and "egress", a space and the value of the Host
\* header for direction Egress, which differs for different hosts.
C9_SpanName ==
  (call.op = "startSpan" /\ outcome = "returned")
    => /\ Len(driver_calls) = 1
       /\ call.config.operationName = "Ingress"
            => driver_calls[1] = <<"i", "n", "g", "r", "e", "s", "s">>
       /\ (call.config.operationName = "Egress" /\ ":authority" \in DOMAIN Headers)
            => /\ driver_calls[1]
                    = <<"e", "g", "r", "e", "s", "s", " ">> \o Headers[":authority"]
               /\ \A other \in Hosts \ {Headers[":authority"]} :
                    driver_calls[1] # <<"e", "g", "r", "e", "s", "s", " ">> \o other

C9_Witness ==
  /\ call.op = "startSpan"
  /\ outcome = "returned"
  /\ call.config.operationName = "Egress"
  /\ ":authority" \in DOMAIN Headers
  /\ Headers[":authority"] = <<"s", "v", "c">>
  /\ Len(driver_calls) = 1

\* The first n characters of a string, all of it when it is shorter.
Prefix(str, n) == [i \in 1..(IF Len(str) < n THEN Len(str) ELSE n) |-> str[i]]

HeaderOrEmpty(name) == IF name \in DOMAIN Headers THEN Headers[name] ELSE <<>>

\* C10: with request headers present, the URL tag is scheme "://" host path,
\* where path is the original-path header if present, else the path header,
\* cut to its first 128 characters; scheme and host are not cut.
C10_UrlTag ==
  (/\ call.op = "finalizeSpan"
   /\ call.has_headers
   /\ ("x-envoy-original-path" \in DOMAIN Headers \/ ":path" \in DOMAIN Headers))
    => LET path == IF "x-envoy-original-path" \in DOMAIN Headers
                   THEN Headers["x-envoy-original-path"] ELSE Headers[":path"]
           scheme == HeaderOrEmpty("x-forwarded-proto")
           host == HeaderOrEmpty(":authority")
       IN /\ TagCount("HttpUrl") = 1
          /\ TagValues("HttpUrl")
               = {scheme \o <<":", "/", "/">> \o host \o Prefix(path, 128)}
          /\ \A url \in TagValues("HttpUrl") :
               Len(url) - Len(scheme) - 3 - Len(host) <= 128

C10_Witness ==
  /\ call.op = "finalizeSpan"
  /\ call.has_headers
  /\ "x-envoy-original-path" \notin DOMAIN Headers
  /\ ":path" \in DOMAIN Headers
  /\ Len(Headers[":path"]) > 128
  /\ "x-forwarded-proto" \in DOMAIN Headers
  /\ TagCount("HttpUrl") = 1

(***************************************************************************)
(* What holds of the calls of finalizeSpan that return.                    *)
(***************************************************************************)
\* A call that returns has set the error tag exactly for no response code
\* or a 5xx response code.
Returned_ErrorTagIff ==
  (call.op = "finalizeSpan" /\ outcome = "returned")
    => (TagValues("Error") = {<<"t", "r", "u", "e">>}
          <=> (Info.responseCode = <<>> \/ Info.responseCode[1] \in 500..599))

\* A call that returns has logged, under the event names of the code, the
\* present marks if verbose mode is enabled and nothing otherwise.
Returned_LogIffVerboseAndPresent ==
  (call.op = "finalizeSpan" /\ outcome = "returned")
    => LoggedEvents = IF call.config.verbose THEN {EventOf[m] : m \in PresentMarks}
                      ELSE {}

\* A call that returns has logged the canonical list filtered to the present
\* marks, each event at the start time plus the offset of its mark in whole
\* ticks of the system clock.
Returned_CanonicalOrder ==
  (call.op = "finalizeSpan" /\ outcome = "returned" /\ call.config.verbose)
    => /\ Len(Logs) = Len(CanonicalEvents(MarkNames))
       /\ \A i \in DOMAIN Logs :
            /\ Logs[i].key = CanonicalEvents(MarkNames)[i].event
            /\ Logs[i].ts <= CanonicalEvents(MarkNames)[i].ts
            /\ CanonicalEvents(MarkNames)[i].ts - Logs[i].ts < system_clock_period

\* Whatever the outcome, the events logged are events of present marks, in
\* the order of the canonical list.
Logged_InCanonicalOrder ==
  call.op = "finalizeSpan"
    => \E kept \in SUBSET PresentMarks :
         [i \in DOMAIN Logs |-> Logs[i].key]
           = SelectSeq([i \in DOMAIN MarkNames |-> EventOf[MarkNames[i]]],
                       LAMBDA e : \E m \in kept : EventOf[m] = e)

\* A call of startSpan that returns has made no call on a span, or exactly
\* the three identity calls.
Returned_StartSpan ==
  (call.op = "startSpan" /\ outcome = "returned")
    => IF call.driver_creates
       THEN span.exists /\ span.calls = IdentityTags(local_info)
       ELSE ~span.exists /\ span.calls = <<>>

====
